---- MODULE Spec2Model ----
(***************************************************************************)
(* A state-machine model of spi_timer_practice.py: the command-line front  *)
(* end (run_cli, ask_question, timed_input with its background reader      *)
(* threads) and the Tk front end (run_gui: start_quiz, show_question,      *)
(* tick_timer, stop_timer, score_selected_option, handle_timeout,          *)
(* submit_answer, finish_quiz).  run() starts exactly one of the two.      *)
(***************************************************************************)
EXTENDS Integers, Sequences, FiniteSets, TLC

(***************************************************************************)
(* Encodings.                                                              *)
(*   None   Python's None in an integer-valued field (remaining,           *)
(*          timer_total, timer_id); these fields are never negative in the *)
(*          program, so -1 is free to stand for None.                      *)
(*   NONE   Python's None where a str is expected (timed_input's result).  *)
(*   SUP2   the one-character string U+00B2 (superscript two): a string    *)
(*          for which str.isdigit() is True and int() raises ValueError.   *)
(***************************************************************************)
None == -1
NONE == "<None>"
EOF  == "<EOF>"
SUP2 == "^2"

NONVERBAL   == "nonverbal"      \* "非言語"
VERBAL      == "verbal"         \* "言語"
PERSONALITY == "personality"    \* "性格"
ALL         == "all"            \* "すべて"
Modes == {NONVERBAL, VERBAL, PERSONALITY}

TimeLimitNonverbal == 30
TimeLimitVerbal    == 40
DefaultCount       == 20
MaxScore           == 4

\* TIME_LIMITS[mode]
TIME_LIMITS(m) ==
  CASE m = NONVERBAL   -> TimeLimitNonverbal
    [] m = VERBAL      -> TimeLimitVerbal
    [] m = PERSONALITY -> None

(***************************************************************************)
(* Bounds of the model.                                                    *)
(*   MaxPending  how many Tk `after` callbacks may be pending at once      *)
(***************************************************************************)
MaxPending == 2

(***************************************************************************)
(* The question catalog (questions.json as load_questions returns it).     *)
(* An id is a string, modelled as the sequence of its digits, so that      *)
(* sorted(..., key=id) compares lexicographically as Python does: "10"     *)
(* sorts before "2".                                                       *)
(***************************************************************************)
Catalog == <<
  [mode |-> NONVERBAL, category |-> "A", difficulty |-> "easy", id |-> <<2>>,
   choices |-> 3, answer_index |-> 2, trait |-> "-"],
  [mode |-> NONVERBAL, category |-> "B", difficulty |-> "hard", id |-> <<1, 0>>,
   choices |-> 2, answer_index |-> 0, trait |-> "-"],
  [mode |-> VERBAL, category |-> "V", difficulty |-> "easy", id |-> <<3>>,
   choices |-> 2, answer_index |-> 1, trait |-> "-"],
  [mode |-> PERSONALITY, category |-> "P", difficulty |-> "-", id |-> <<5>>,
   choices |-> 3, answer_index |-> 0, trait |-> "T1"],
  [mode |-> PERSONALITY, category |-> "P", difficulty |-> "-", id |-> <<4>>,
   choices |-> 2, answer_index |-> 0, trait |-> "T2"]
>>

\* A question is held by reference: its position in the catalog.
questions == [i \in 1..Len(Catalog) |-> i]
Q(ref) == Catalog[ref]

\* The values the category and difficulty selectors offer for a mode
\* (run_cli's sorted sets with allow_all, update_filters' combobox values).
Categories(m)   == {ALL} \cup {Catalog[i].category : i \in {j \in 1..Len(Catalog) : Catalog[j].mode = m}}
Difficulties(m) == {ALL} \cup {Catalog[i].difficulty : i \in {j \in 1..Len(Catalog) : Catalog[j].mode = m}}

\* Lines the user may type as an answer, and as the number of questions.
AnswerLines == {"", "0", "1", "2", "3", "x", SUP2}
CountLines  == {"", "0", "1", "2", "-1", "x", SUP2}

(***************************************************************************)
(* str.isdigit() and int() on the lines above.                             *)
(***************************************************************************)
Numerals == {"0", "1", "2", "3"}
isdigit(s) == s \in Numerals \cup {SUP2}
IntRaises(s) == s = SUP2
int(s) ==
  CASE s = "0" -> 0
    [] s = "1" -> 1
    [] s = "2" -> 2
    [] s = "3" -> 3

Min(a, b) == IF a <= b THEN a ELSE b
Range(f) == {f[i] : i \in DOMAIN f}

(***************************************************************************)
(* filter_questions                                                        *)
(***************************************************************************)
ByMode(q, mode)             == Q(q).mode = mode
ByCategory(q, category)     == Q(q).category = category
\* a variant of ByDifficulty that looks at the category once more
ByDifficulty_category(q, difficulty) == Q(q).category = difficulty
ByDifficulty(q, difficulty) == Q(q).difficulty = difficulty

filter_questions(qs, mode, category, difficulty) ==
  LET f1 == SelectSeq(qs, LAMBDA q : ByMode(q, mode))
      f2 == IF category # ALL
            THEN SelectSeq(f1, LAMBDA q : ByCategory(q, category)) ELSE f1
      f3 == IF difficulty # ALL
            THEN SelectSeq(f2, LAMBDA q : ByDifficulty(q, difficulty)) ELSE f2
  IN f3

(***************************************************************************)
(* sorted(pool, key=lambda q: q.get("id", "")): a stable sort by the id    *)
(* string, compared lexicographically.                                     *)
(***************************************************************************)
RECURSIVE LexLess(_, _)
LexLess(a, b) ==
  IF b = <<>> THEN FALSE
  ELSE IF a = <<>> THEN TRUE
  ELSE IF Head(a) # Head(b) THEN Head(a) < Head(b)
  ELSE LexLess(Tail(a), Tail(b))

\* insert q after every element whose key is not greater (stability)
RECURSIVE InsertSorted(_, _)
InsertSorted(q, s) ==
  IF s = <<>> THEN <<q>>
  ELSE IF LexLess(Q(q).id, Q(Head(s)).id) THEN <<q>> \o s
  ELSE <<Head(s)>> \o InsertSorted(q, Tail(s))

\* a variant of sorted that leaves the pool in catalog order
unsorted(pool) == pool

RECURSIVE sorted(_)
sorted(pool) ==
  IF pool = <<>> THEN <<>>
  ELSE InsertSorted(pool[Len(pool)], sorted(SubSeq(pool, 1, Len(pool) - 1)))

Injective(f) == \A i, j \in DOMAIN f : f[i] = f[j] => i = j

\* a variant of sample that draws with replacement, as random.choices does
choices(pool, k) == [1..k -> Range(pool)]

\* random.sample(pool, k): any k elements at distinct positions, in any order
sample(pool, k) ==
  {[i \in 1..k |-> pool[p[i]]] : p \in {f \in [1..k -> 1..Len(pool)] : Injective(f)}}

\* the session sequences the chosen ordering can produce
Select(pool, cnt, is_random) ==
  IF is_random THEN sample(pool, cnt) ELSE {SubSeq(sorted(pool), 1, cnt)}

(***************************************************************************)
(* The Tk front end (run_gui).                                             *)
(*   state           the `state` dict                                      *)
(*   choice_var      the IntVar behind the radio buttons, -1: none chosen  *)
(*   next_btn        the text of next_btn: "answer" (解答する), "next" (次へ)  *)
(*   q_title         what q_title shows: idle, question n (0-based), done  *)
(*   feedback        what the feedback box shows                           *)
(*   choice_buttons  how many radio buttons are on screen                  *)
(*   after           the ids of root.after callbacks that are pending, in  *)
(*                   the order they come due                               *)
(*   out             the main-loop event handled last: the callback (cb),  *)
(*                   whether handle_timeout ran in it (timeout), what it   *)
(*                   surfaced (kind: a messagebox, or the exception it     *)
(*                   ended with, which Tk reports before going on) and the *)
(*                   count text it read (raw, "-" if it read none)         *)
(***************************************************************************)
VARIABLES frontend, state, choice_var, next_btn, q_title, feedback,
          choice_buttons, after, out

\* The time since the question on screen was presented, in seconds: `own` is
\* the pending callback of the countdown that show_question started for it
\* (None if it has none), `age` how many times that countdown has come due.
\* Every callback is scheduled 1000 ms ahead, so it comes due once a second.
VARIABLE shown

guiVars == <<state, choice_var, next_btn, q_title, feedback, choice_buttons, after, out,
             shown>>

(***************************************************************************)
(* The command-line front end (run_cli, ask_question, timed_input).        *)
(*   pc           where run_cli is: "setup", "ask" (about to ask question  *)
(*                idx), "join" (in thread.join), "check" (join timed out,  *)
(*                is_alive not yet read), "input" (a blocking input()),    *)
(*                "report", or the exception that ended it                 *)
(*   c_mode, raw_count, selected, count, idx, c_correct,                   *)
(*   personality_records                                                   *)
(*                run_cli's locals mode, raw_count, selected, count, idx   *)
(*                (1-based), correct, personality_records                  *)
(*   thread       the reader thread each timed_input call started: none,   *)
(*                blocked (in input()), exited (before its call            *)
(*                returned), late / late_eof (exited with a line / at end  *)
(*                of input after its call had returned)                    *)
(*   user_input   the one-element list each call shares with its reader:   *)
(*                its value, and (by) the reader that wrote it             *)
(*   answer       what the last timed_input call returned (val), which     *)
(*                call it was, who wrote the value (by), and why the call  *)
(*                returned (cause: line, eof, deadline)                    *)
(*   printed      the verdict ask_question printed last                    *)
(***************************************************************************)
VARIABLES pc, c_mode, raw_count, selected, count, idx, c_correct,
          personality_records, thread, user_input, answer, printed

cliVars == <<pc, c_mode, raw_count, selected, count, idx, c_correct,
             personality_records, thread, user_input, answer, printed>>

(***************************************************************************)
(* The user in a side-by-side run of the two front ends (SpecEquiv): what  *)
(* the user does with the question at the cursor (stage: plan, act, done;  *)
(* pick: the choice, -1 for none; confirm: whether the user confirms it    *)
(* before the deadline; typed: whether the line has been sent to run_cli). *)
(* Unused otherwise.                                                       *)
(***************************************************************************)
VARIABLE user

(***************************************************************************)
(* One call of a function of the program on its own (SpecSampler, ...):    *)
(* the arguments, and once the call is done its result.  Unused otherwise. *)
(***************************************************************************)
VARIABLE probe

vars == <<frontend, guiVars, cliVars, user, probe>>

GuiOn == frontend \in {"gui", "both"}
CliOn == frontend \in {"cli", "both"}

Idle          == [kind |-> "idle", n |-> 0]
Finished      == [kind |-> "finished", n |-> 0]
Question(n)   == [kind |-> "question", n |-> n]
Text(kind)    == [kind |-> kind, total |-> 0, correct |-> 0]
Result(t, c)  == [kind |-> "result", total |-> t, correct |-> c]

Out(cb, kind, raw) == [cb |-> cb, timeout |-> FALSE, kind |-> kind, raw |-> raw]
NoOut == Out("-", "none", "-")

\* the front end's variables as one value, so that a callback `cb` is a function
\* of it; capped is set when a step would exceed MaxPending (it is then not taken)
G(cb) == [state |-> state, choice_var |-> choice_var, next_btn |-> next_btn,
          q_title |-> q_title, feedback |-> feedback, choice_buttons |-> choice_buttons,
          after |-> after, out |-> Out(cb, "none", "-"), capped |-> FALSE]

Raise(g, exc) == [g EXCEPT !.out.kind = exc]

\* root.after(1000, tick_timer): an id that names no pending callback and is
\* not the id state["timer_id"] still holds (Tk never reuses an id)
FreshId(g) ==
  CHOOSE i \in 1..(MaxPending + 1) :
    /\ i \notin Range(g.after) /\ i # g.state.timer_id
    /\ \A j \in 1..(i - 1) : j \in Range(g.after) \/ j = g.state.timer_id

\* stop_timer: after_cancel of an id that already fired cancels nothing
stop_timer(g) ==
  IF g.state.timer_id # None
  THEN [g EXCEPT !.after = SelectSeq(@, LAMBDA i : i # g.state.timer_id),
                 !.state.timer_id = None]
  ELSE g

(***************************************************************************)
(* summarize_personality(records, max_score=4).  A record is <<trait,       *)
(* score>>.  The averages are quotients of integers; the comparison         *)
(* (sum / n) / max_score >= 0.85 is made on the integers, which agrees with *)
(* the float comparison for the sums and lengths that occur (n < 60), and   *)
(* an average is shown with two decimals (":.2f"), held here in hundredths: *)
(* for n < 8 no average lies halfway between two of them.                   *)
(***************************************************************************)
RECURSIVE SumScores(_)
SumScores(recs) == IF recs = <<>> THEN 0 ELSE Head(recs)[2] + SumScores(Tail(recs))

\* the keys of `grouped`, in the order of their first record
RECURSIVE TraitsOf(_)
TraitsOf(recs) ==
  IF recs = <<>> THEN <<>>
  ELSE LET init == TraitsOf(SubSeq(recs, 1, Len(recs) - 1))
           t    == recs[Len(recs)][1]
       IN IF t \in Range(init) THEN init ELSE Append(init, t)

\* grouped[trait]
Grouped(recs, t) == SelectSeq(recs, LAMBDA r : r[1] = t)

\* f"{total / n:.2f}", in hundredths
Hundredths(total, n) == (200 * total + n) \div (2 * n)

\* a variant of Tendency whose upper threshold is strict
Tendency_strict(total, n, max_score) ==
  IF 100 * total > 85 * n * max_score THEN "high"
  ELSE IF 100 * total >= 60 * n * max_score THEN "standard"
  ELSE "low"

\* the tendency of a trait with n scores that add up to total
Tendency(total, n, max_score) ==
  IF 100 * total >= 85 * n * max_score THEN "high"
  ELSE IF 100 * total >= 60 * n * max_score THEN "standard"
  ELSE "low"

summarize_personality(records, max_score) ==
  IF records = <<>> THEN Text("no_data")
  ELSE LET traits == TraitsOf(records)
       IN [kind    |-> "personality_summary",
           lines   |-> [i \in 1..Len(traits) |->
                          LET scores == Grouped(records, traits[i])
                          IN [trait    |-> traits[i],
                              avg      |-> Hundredths(SumScores(scores), Len(scores)),
                              tendency |-> Tendency(SumScores(scores), Len(scores), max_score)]],
           overall |-> Hundredths(SumScores(records), Len(records))]

finish_quiz(g) ==
  LET g1    == stop_timer(g)
      total == Len(g1.state.quiz)
  IN IF g1.state.mode = PERSONALITY
     THEN [g1 EXCEPT !.q_title = Finished,
                     !.feedback = summarize_personality(g1.state.records, MaxScore),
                     !.next_btn = "answer"]
     ELSE IF total = 0
     THEN Raise(g1, "ZeroDivisionError")
     ELSE [g1 EXCEPT !.q_title = Finished,
                     !.feedback = Result(total, g1.state.correct),
                     !.next_btn = "answer"]

RECURSIVE show_question(_)

score_selected_option(g, sel, timed_out) ==
  IF g.state.index >= Len(g.state.quiz)
  THEN Raise(g, "IndexError")
  ELSE
    LET q == Q(g.state.quiz[g.state.index + 1])
    IN IF g.state.mode = PERSONALITY
       THEN show_question(
              [g EXCEPT !.state.records = Append(@, <<q.trait, q.choices - sel>>),
                        !.state.index = @ + 1])
       ELSE
         LET is_correct == sel = q.answer_index
         IN [g EXCEPT !.state.correct = IF is_correct THEN @ + 1 ELSE @,
                      !.feedback = Text((IF timed_out THEN "timeout_" ELSE "")
                                         \o (IF is_correct THEN "correct" ELSE "incorrect")),
                      !.state.index = @ + 1,
                      !.next_btn = "next"]

handle_timeout(g) ==
  LET g1  == [stop_timer(g) EXCEPT !.out.timeout = TRUE]
      sel == g1.choice_var
  IN IF sel >= 0
     THEN score_selected_option(g1, sel, TRUE)
     ELSE IF g1.state.index >= Len(g1.state.quiz)
     THEN Raise(g1, "IndexError")
     ELSE IF g1.state.mode = PERSONALITY
     THEN show_question([g1 EXCEPT !.state.index = @ + 1])
     ELSE [g1 EXCEPT !.feedback = Text("timeout"),
                     !.state.index = @ + 1,
                     !.next_btn = "next"]

tick_timer(g) ==
  IF g.state.remaining = None THEN g
  ELSE IF g.state.remaining <= 0 THEN handle_timeout(g)
  ELSE IF Len(g.after) >= MaxPending THEN [g EXCEPT !.capped = TRUE]
  ELSE LET id == FreshId(g)
       IN [g EXCEPT !.state.remaining = @ - 1,
                    !.state.timer_id = id,
                    !.after = Append(@, id)]

show_question(g) ==
  IF g.state.index >= Len(g.state.quiz)
  THEN finish_quiz(g)
  ELSE
    LET q       == Q(g.state.quiz[g.state.index + 1])
        timeout == TIME_LIMITS(g.state.mode)
        g1      == [g EXCEPT !.choice_var = -1,
                             !.q_title = Question(g.state.index),
                             !.feedback = Text(""),
                             !.choice_buttons = q.choices,
                             !.state.remaining = timeout,
                             !.state.timer_total = timeout]
    IN IF timeout = None THEN g1 ELSE tick_timer(g1)

submit_answer(g) ==
  IF g.next_btn = "next"
  THEN show_question([g EXCEPT !.next_btn = "answer"])
  ELSE IF g.state.index >= Len(g.state.quiz)
  THEN finish_quiz(g)
  ELSE IF g.choice_var < 0
  THEN [g EXCEPT !.out.kind = "showinfo_unanswered"]
  ELSE score_selected_option(stop_timer(g), g.choice_var, FALSE)

\* start_quiz, up to the choice of the session sequence: the accepted count, or
\* the way the callback ends without starting a session
StartCount(pool, raw) ==
  IF pool = <<>> THEN [ok |-> FALSE, count |-> 0, kind |-> "showerror_pool", raw |-> "-"]
  ELSE IF raw = ""
  THEN [ok |-> TRUE, count |-> Min(DefaultCount, Len(pool)), kind |-> "none", raw |-> raw]
  ELSE IF isdigit(raw) /\ IntRaises(raw)
  THEN [ok |-> FALSE, count |-> 0, kind |-> "ValueError", raw |-> raw]
  ELSE IF isdigit(raw) /\ int(raw) > 0
  THEN [ok |-> TRUE, count |-> Min(int(raw), Len(pool)), kind |-> "none", raw |-> raw]
  ELSE [ok |-> FALSE, count |-> 0, kind |-> "showerror_count", raw |-> raw]

\* what the widgets can hold when the start button is pressed: mode_var,
\* category_var and difficulty_var (a value the combobox offers for the mode),
\* count_var (free text) and random_var.  The same choices are open to the
\* user at run_cli's prompts.
StartInputs ==
  {in \in [mode : Modes, category : UNION {Categories(x) : x \in Modes},
           difficulty : UNION {Difficulties(x) : x \in Modes},
           raw : CountLines, is_random : BOOLEAN] :
     in.category \in Categories(in.mode) /\ in.difficulty \in Difficulties(in.mode)}

\* the ways start_quiz can go, over all such inputs: the mode and the session
\* sequence it installs, or how it ends without one
StartsOf(in) ==
  LET pool == filter_questions(questions, in.mode, in.category, in.difficulty)
      c    == StartCount(pool, in.raw)
  IN IF c.ok
     THEN {[ok |-> TRUE, mode |-> in.mode, quiz |-> quiz, kind |-> c.kind, raw |-> c.raw] :
             quiz \in Select(pool, c.count, in.is_random)}
     ELSE {[ok |-> FALSE, mode |-> in.mode, quiz |-> <<>>, kind |-> c.kind, raw |-> c.raw]}

StartOutcomes == UNION {StartsOf(in) : in \in StartInputs}

start_quiz(g, o) ==
  LET g1 == [g EXCEPT !.out.kind = o.kind, !.out.raw = o.raw]
  IN IF ~o.ok THEN g1
     ELSE show_question([g1 EXCEPT !.state.mode = o.mode,
                                   !.state.quiz = o.quiz,
                                   !.state.index = 0,
                                   !.state.correct = 0,
                                   !.state.records = <<>>,
                                   !.next_btn = "answer"])

(***************************************************************************)
(* The events of the Tk main loop.                                         *)
(***************************************************************************)
Apply(g) ==
  /\ ~g.capped
  /\ state' = g.state
  /\ choice_var' = g.choice_var
  /\ next_btn' = g.next_btn
  /\ q_title' = g.q_title
  /\ feedback' = g.feedback
  /\ choice_buttons' = g.choice_buttons
  /\ after' = g.after
  /\ out' = g.out

\* this step ran show_question and put a question on screen
Presents ==
  /\ out'.kind = "none" /\ state'.index < Len(state'.quiz)
  /\ \/ out'.cb = "start_quiz"
     \/ out'.cb = "submit_answer" /\ next_btn = "next"
     \/ state'.mode = PERSONALITY /\ state'.index # state.index

\* `shown` after a step in which callback `fired` came due (None: no callback);
\* once the question's own countdown is over its age is of no use and is dropped
Lapsed == [own |-> None, age |-> 0]
Clock(fired) ==
  shown' =
    IF Presents
    THEN IF state'.timer_id = None THEN Lapsed ELSE [own |-> state'.timer_id, age |-> 0]
    ELSE IF fired # None /\ fired = shown.own
    THEN IF state.remaining # None /\ state.remaining > 0 /\ state'.timer_id # None
         THEN [own |-> state'.timer_id, age |-> shown.age + 1]
         ELSE Lapsed
    ELSE IF shown.own \notin Range(after') THEN Lapsed
    ELSE shown

\* the start button
StartQuizWith(o) ==
  /\ GuiOn
  /\ Apply(start_quiz(G("start_quiz"), o))
  /\ Clock(None)
  /\ UNCHANGED frontend

StartQuiz ==
  /\ \E o \in StartOutcomes : StartQuizWith(o)
  /\ UNCHANGED <<cliVars, user, probe>>

\* a click on radio button i, one of those on screen
SelectChoiceAt(i) ==
  /\ GuiOn
  /\ i \in 0..(choice_buttons - 1)
  /\ choice_var' = i
  /\ out' = Out("select", "none", "-")
  /\ UNCHANGED <<frontend, state, next_btn, q_title, feedback, choice_buttons, after,
                 shown>>

SelectChoice ==
  /\ \E i \in 0..(choice_buttons - 1) : SelectChoiceAt(i)
  /\ UNCHANGED <<cliVars, user, probe>>

\* the answer / next button
Press ==
  /\ GuiOn
  /\ Apply(submit_answer(G("submit_answer")))
  /\ Clock(None)
  /\ UNCHANGED frontend

SubmitAnswer ==
  /\ Press
  /\ UNCHANGED <<cliVars, user, probe>>

\* the pending root.after callback that is due first comes due: every callback
\* is scheduled 1000 ms ahead, so they come due in the order they were scheduled
Due ==
  /\ GuiOn
  /\ after # <<>>
  /\ Apply(tick_timer([G("tick_timer") EXCEPT !.after = Tail(@)]))
  /\ Clock(Head(after))
  /\ UNCHANGED frontend

Tick ==
  /\ Due
  /\ UNCHANGED <<cliVars, user, probe>>

(***************************************************************************)
(* The command-line front end.                                             *)
(***************************************************************************)
Calls == 1..Len(Catalog)
Cell(val, by) == [val |-> val, by |-> by]
NoCell == Cell(NONE, 0)
Returned(val, by, call, cause) == [val |-> val, by |-> by, call |-> call, cause |-> cause]
NoAnswer == Returned(NONE, 0, 0, "-")

\* "return None" when the reader is still alive after the join
TimeoutResult == NONE
\* a reader at end of input stores None
EofResult == NONE

\* a variant of CellOf: one module-level list that every call reuses
SharedCell(call) == 0

\* the list a call's reader writes to: `user_input` is a local of the call,
\* bound in the closure _read, so every call has a list of its own
CellOf(call) == call

\* run_cli's check of the count text
CliCount(pool, raw) ==
  IF pool = <<>> THEN [ok |-> FALSE, count |-> 0, pc |-> "QuizError_pool", raw |-> "-"]
  ELSE IF raw = ""
  THEN [ok |-> TRUE, count |-> Min(DefaultCount, Len(pool)), pc |-> "ask", raw |-> raw]
  ELSE IF ~isdigit(raw) THEN [ok |-> FALSE, count |-> 0, pc |-> "QuizError_count", raw |-> raw]
  ELSE IF IntRaises(raw) THEN [ok |-> FALSE, count |-> 0, pc |-> "ValueError", raw |-> raw]
  ELSE IF int(raw) <= 0 THEN [ok |-> FALSE, count |-> 0, pc |-> "QuizError_count", raw |-> raw]
  ELSE [ok |-> TRUE, count |-> Min(int(raw), Len(pool)), pc |-> "ask", raw |-> raw]

\* the ways run_cli's setup can go over all the user's choices (at the order
\* prompt anything but "2" means random)
SetupsOf(in) ==
  LET pool == filter_questions(questions, in.mode, in.category, in.difficulty)
      c    == CliCount(pool, in.raw)
  IN IF c.ok
     THEN {[ok |-> TRUE, mode |-> in.mode, selected |-> sel, count |-> c.count,
            pc |-> c.pc, raw |-> c.raw] : sel \in Select(pool, c.count, in.is_random)}
     ELSE {[ok |-> FALSE, mode |-> in.mode, selected |-> <<>>, count |-> 0,
            pc |-> c.pc, raw |-> c.raw]}

SetupOutcomes == UNION {SetupsOf(in) : in \in StartInputs}

\* ask_question after timed_input has returned `ans`: what it prints and the
\* pair (is_correct, score) it returns, or the exception it ends with
Verdict(kind, is_correct, score) == [kind |-> kind, is_correct |-> is_correct, score |-> score]
ask_question(q, mode, ans) ==
  IF ans = NONE
  THEN IF mode = PERSONALITY THEN Verdict("no_input", "None", None)
       ELSE Verdict("timeout", "False", None)
  ELSE IF ~isdigit(ans)
  THEN IF mode # PERSONALITY THEN Verdict("not_a_number", "False", None)
       ELSE Verdict("not_a_number", "None", None)
  ELSE IF IntRaises(ans) THEN Verdict("ValueError", "None", None)
  ELSE
    LET sel == int(ans) - 1
    IN IF sel < 0 \/ sel >= q.choices
       THEN IF mode # PERSONALITY THEN Verdict("out_of_range", "False", None)
            ELSE Verdict("out_of_range", "None", None)
       ELSE IF mode = PERSONALITY THEN Verdict("scored", "None", q.choices - sel)
       ELSE IF sel = q.answer_index THEN Verdict("correct", "True", None)
       ELSE Verdict("incorrect", "False", None)

\* a list is reachable while its call is in timed_input or a reader that
\* writes to it is still blocked; an unreachable list is gone
Reachable(k, th, at, i) ==
  \/ at \in {"join", "check"} /\ CellOf(i) = k
  \/ \E r \in Calls : th[r] = "blocked" /\ CellOf(r) = k
Collect(cells, th, at, i) ==
  [k \in DOMAIN cells |-> IF Reachable(k, th, at, i) THEN cells[k] ELSE NoCell]

\* run_cli up to "Enterで開始"
SetupWith(o) ==
  /\ CliOn /\ pc = "setup"
  /\ pc' = o.pc
  /\ c_mode' = o.mode
  /\ raw_count' = o.raw
  /\ selected' = o.selected
  /\ count' = o.count
  /\ idx' = 1
  /\ UNCHANGED <<frontend, c_correct, personality_records, thread, user_input,
                 answer, printed>>

CliSetup ==
  /\ \E o \in SetupOutcomes : SetupWith(o)
  /\ UNCHANGED <<guiVars, user, probe>>

\* ask_question prints the question and calls timed_input, which starts its
\* reader and joins it (or calls input() itself when there is no time limit)
Ask ==
  /\ CliOn /\ pc = "ask"
  /\ IF TIME_LIMITS(c_mode) = None
     THEN /\ pc' = "input"
          /\ UNCHANGED <<thread, user_input>>
     ELSE /\ pc' = "join"
          /\ thread' = [thread EXCEPT ![idx] = "blocked"]
          /\ user_input' = [user_input EXCEPT ![CellOf(idx)] = NoCell]
  /\ UNCHANGED <<frontend, c_mode, raw_count, selected, count, idx, c_correct,
                 personality_records, answer, printed>>

CliAsk ==
  /\ Ask
  /\ UNCHANGED <<guiVars, user, probe>>

\* the line v (or end of input) reaches reader r, blocked in input(): it
\* stores it and exits
Reads(r, v) ==
  /\ CliOn
  /\ thread[r] = "blocked"
  /\ LET th == [thread EXCEPT ![r] = IF r = idx /\ pc \in {"join", "check"} THEN "exited"
                                     ELSE IF v = EOF THEN "late_eof" ELSE "late"]
         ui == [user_input EXCEPT ![CellOf(r)] = Cell(IF v = EOF THEN EofResult ELSE v, r)]
     IN /\ thread' = th
        /\ user_input' = Collect(ui, th, pc, idx)
  /\ UNCHANGED <<frontend, pc, c_mode, raw_count, selected, count, idx, c_correct,
                 personality_records, answer, printed>>

\* which of several blocked readers gets the next line is left open
ReaderReads ==
  /\ \E r \in Calls, v \in AnswerLines \cup {EOF} : Reads(r, v)
  /\ UNCHANGED <<guiVars, user, probe>>

\* thread.join(timeout) returns because the time is up
TimeUp ==
  /\ CliOn /\ pc = "join"
  /\ thread[idx] = "blocked"
  /\ pc' = "check"
  /\ UNCHANGED <<frontend, c_mode, raw_count, selected, count, idx, c_correct,
                 personality_records, thread, user_input, answer, printed>>

JoinTimeout ==
  /\ TimeUp
  /\ UNCHANGED <<guiVars, user, probe>>

\* a variant of Score that appends a record in a personality session whatever
\* the score is
Score_unchecked(ans) ==
  LET q == Q(selected[idx])
      v == ask_question(q, c_mode, ans.val)
  IN /\ answer' = ans
     /\ printed' = v.kind
     /\ IF v.kind = "ValueError"
        THEN /\ pc' = "ValueError"
             /\ UNCHANGED <<idx, c_correct, personality_records>>
        ELSE /\ c_correct' = IF v.is_correct = "True" THEN c_correct + 1 ELSE c_correct
             /\ personality_records' =
                  IF c_mode = PERSONALITY
                  THEN Append(personality_records, <<q.trait, v.score>>)
                  ELSE personality_records
             /\ idx' = idx + 1
             /\ pc' = IF idx + 1 > count THEN "report" ELSE "ask"

\* the rest of one round of run_cli's loop, given what timed_input returns
Score(ans) ==
  LET q == Q(selected[idx])
      v == ask_question(q, c_mode, ans.val)
  IN /\ answer' = ans
     /\ printed' = v.kind
     /\ IF v.kind = "ValueError"
        THEN /\ pc' = "ValueError"
             /\ UNCHANGED <<idx, c_correct, personality_records>>
        ELSE /\ c_correct' = IF v.is_correct = "True" THEN c_correct + 1 ELSE c_correct
             /\ personality_records' =
                  IF c_mode = PERSONALITY /\ v.score # None
                  THEN Append(personality_records, <<q.trait, v.score>>)
                  ELSE personality_records
             /\ idx' = idx + 1
             /\ pc' = IF idx + 1 > count THEN "report" ELSE "ask"

\* what timed_input returns once the join is over
timed_input_result ==
  IF thread[idx] = "blocked"
  THEN Returned(TimeoutResult, 0, idx, "deadline")
  ELSE LET c == user_input[CellOf(idx)]
       IN Returned(c.val, c.by, idx, IF thread[idx] = "exited" /\ c.val = EofResult /\ c.by # 0
                                     THEN "eof" ELSE "line")

\* timed_input returns (the join ended with the reader, or is_alive is read
\* after the time was up) and the round is scored
Return ==
  /\ CliOn
  /\ (pc = "join" /\ thread[idx] = "exited") \/ pc = "check"
  /\ Score(timed_input_result)
  /\ user_input' = Collect(user_input, thread, "scored", idx)
  /\ UNCHANGED <<frontend, c_mode, raw_count, selected, count, thread>>

CliReturn ==
  /\ Return
  /\ UNCHANGED <<guiVars, user, probe>>

\* timed_input without a time limit: input() on the main thread
CliInput ==
  /\ CliOn /\ pc = "input"
  /\ \E v \in AnswerLines \cup {EOF} :
       Score(Returned(IF v = EOF THEN EofResult ELSE v, idx, idx,
                      IF v = EOF THEN "eof" ELSE "line"))
  /\ UNCHANGED <<frontend, c_mode, raw_count, selected, count, thread, user_input>>
  /\ UNCHANGED <<guiVars, user, probe>>

\* run(): the user picks the front end
Run ==
  /\ frontend = "none"
  /\ frontend' \in {"cli", "gui"}
  /\ UNCHANGED <<guiVars, cliVars, user, probe>>

NoProbe == [done |-> FALSE]
NoUser == [stage |-> "-", pick |-> -1, confirm |-> FALSE, typed |-> FALSE]

InitGui ==
  /\ state = [mode |-> NONVERBAL, quiz |-> <<>>, index |-> 0, correct |-> 0,
              records |-> <<>>, timer_id |-> None, remaining |-> None,
              timer_total |-> None]
  /\ choice_var = -1
  /\ next_btn = "answer"
  /\ q_title = Idle
  /\ feedback = Text("")
  /\ choice_buttons = 0
  /\ after = <<>>
  /\ shown = Lapsed
  /\ out = NoOut

InitCli ==
  /\ pc = "setup"
  /\ c_mode = NONVERBAL
  /\ raw_count = "-"
  /\ selected = <<>>
  /\ count = 0
  /\ idx = 1
  /\ c_correct = 0
  /\ personality_records = <<>>
  /\ thread = [r \in Calls |-> "none"]
  /\ user_input = [k \in {0} \cup Calls |-> NoCell]
  /\ answer = NoAnswer
  /\ printed = ""

Init ==
  /\ frontend = "none"
  /\ InitGui
  /\ InitCli
  /\ user = NoUser
  /\ probe = NoProbe

Next ==
  \/ Run
  \/ StartQuiz \/ SelectChoice \/ SubmitAnswer \/ Tick
  \/ CliSetup \/ CliAsk \/ ReaderReads \/ JoinTimeout \/ CliReturn \/ CliInput

Spec == Init /\ [][Next]_vars

(***************************************************************************)
(* The two front ends side by side: run_cli and the Tk window are given    *)
(* the same cognitive session sequence, and for each question the same     *)
(* user behaviour.  In the window the user clicks the choice and, if the   *)
(* choice is confirmed, presses the answer button before the countdown     *)
(* ends; at the prompt the user types the choice's number and, if it is    *)
(* confirmed, sends the line before the deadline.                          *)
(***************************************************************************)
\* the line that names choice i at the prompt ("番号で回答してください")
Typed(i) == IF i = 0 THEN "1" ELSE IF i = 1 THEN "2" ELSE "3"

\* both front ends have the verdict of the question the user acted on
EquivDone ==
  /\ user.stage = "act"
  /\ next_btn = "next"
  /\ pc \in {"ask", "report"}
  /\ idx = state.index + 1

\* the same mode and the same session sequence are started in both
E_Begin ==
  /\ user.stage = "-"
  /\ \E o \in SetupOutcomes, s \in StartOutcomes :
       /\ o.ok /\ s.ok
       /\ o.mode # PERSONALITY /\ s.mode = o.mode /\ s.quiz = o.selected
       /\ SetupWith(o)
       /\ StartQuizWith(s)
  /\ user' = [user EXCEPT !.stage = "plan"]
  /\ UNCHANGED probe

\* what the user will do with the question now presented
E_Plan ==
  /\ user.stage = "plan"
  /\ \E i \in -1..(choice_buttons - 1), c \in BOOLEAN :
       /\ i = -1 => ~c
       /\ user' = [stage |-> "act", pick |-> i, confirm |-> c, typed |-> FALSE]
  /\ UNCHANGED <<frontend, guiVars, cliVars, probe>>

E_Select ==
  /\ user.stage = "act" /\ next_btn = "answer"
  /\ user.pick >= 0 /\ choice_var # user.pick
  /\ SelectChoiceAt(user.pick)
  /\ UNCHANGED <<cliVars, user, probe>>

E_Confirm ==
  /\ user.stage = "act" /\ next_btn = "answer"
  /\ user.confirm /\ choice_var = user.pick
  /\ Press
  /\ UNCHANGED <<cliVars, user, probe>>

\* a countdown tick; the one that runs handle_timeout comes after the user's
\* click, and only to a user who does not confirm in time
E_Tick ==
  /\ user.stage = "act"
  /\ (user.confirm \/ choice_var # user.pick) => state.remaining > 0
  /\ Due
  /\ UNCHANGED <<cliVars, user, probe>>

\* the question the user is on (1-based): the one the window collects, or has
\* just given its verdict to
EquivAt == IF next_btn = "next" THEN state.index ELSE state.index + 1

E_Ask ==
  /\ user.stage = "act"
  /\ idx = EquivAt
  /\ Ask
  /\ UNCHANGED <<guiVars, user, probe>>

\* the confirmed line is sent while timed_input waits; a reader blocked in
\* input() gets it
E_Type ==
  /\ user.stage = "act" /\ pc = "join"
  /\ user.confirm /\ ~user.typed
  /\ \E r \in Calls : Reads(r, Typed(user.pick))
  /\ user' = [user EXCEPT !.typed = TRUE]
  /\ UNCHANGED probe
  /\ UNCHANGED guiVars

E_TimeUp ==
  /\ user.stage = "act"
  /\ ~user.confirm \/ user.typed
  /\ TimeUp
  /\ UNCHANGED <<guiVars, user, probe>>

E_Return ==
  /\ user.stage = "act"
  /\ Return
  /\ UNCHANGED <<guiVars, user, probe>>

\* with both verdicts out, the next button: the next question or the result
E_Next ==
  /\ EquivDone
  /\ Press
  /\ user' = [user EXCEPT !.stage = IF pc = "report" THEN "done" ELSE "plan"]
  /\ UNCHANGED probe
  /\ UNCHANGED cliVars

InitEquiv ==
  /\ frontend = "both"
  /\ InitGui
  /\ InitCli
  /\ user = NoUser
  /\ probe = NoProbe

NextEquiv ==
  \/ E_Begin \/ E_Plan
  \/ E_Select \/ E_Confirm \/ E_Tick \/ E_Next
  \/ E_Ask \/ E_Type \/ E_TimeUp \/ E_Return

SpecEquiv == InitEquiv /\ [][NextEquiv]_vars

(***************************************************************************)
(* The choice of the session sequence on its own: the count check and the  *)
(* selection of run_cli (176-185) and of start_quiz (493-506), applied to  *)
(* any pool of up to MaxPool catalog questions, any count text and either  *)
(* ordering.                                                               *)
(***************************************************************************)
MaxPool == 3

\* the lists of distinct catalog questions of length 0..MaxPool
Pools ==
  UNION {{f \in [1..n -> 1..Len(Catalog)] : Injective(f)} : n \in 0..MaxPool}

ProgramIdle ==
  /\ frontend = "none"
  /\ InitGui
  /\ InitCli
  /\ user = NoUser

InitSampler ==
  /\ ProgramIdle
  /\ probe \in [pool : Pools, raw : CountLines, is_random : BOOLEAN, done : {FALSE}]

\* what a call left behind: the exception or dialog it ended with, or the
\* sequence it selected
Sampled(by, ok, kind, seq) ==
  [pool |-> probe.pool, raw |-> probe.raw, is_random |-> probe.is_random,
   done |-> TRUE, by |-> by, ok |-> ok, kind |-> kind, seq |-> seq]

SampleCli ==
  /\ ~probe.done
  /\ LET c == CliCount(probe.pool, probe.raw)
     IN IF c.ok
        THEN \E seq \in Select(probe.pool, c.count, probe.is_random) :
               probe' = Sampled("run_cli", TRUE, c.pc, seq)
        ELSE probe' = Sampled("run_cli", FALSE, c.pc, <<>>)
  /\ UNCHANGED <<frontend, guiVars, cliVars, user>>

SampleGui ==
  /\ ~probe.done
  /\ LET c == StartCount(probe.pool, probe.raw)
     IN IF c.ok
        THEN \E seq \in Select(probe.pool, c.count, probe.is_random) :
               probe' = Sampled("start_quiz", TRUE, c.kind, seq)
        ELSE probe' = Sampled("start_quiz", FALSE, c.kind, <<>>)
  /\ UNCHANGED <<frontend, guiVars, cliVars, user>>

NextSampler == SampleCli \/ SampleGui

SpecSampler == InitSampler /\ [][NextSampler]_vars

(***************************************************************************)
(* summarize_personality on its own, applied to any list of up to          *)
(* MaxRecords records over two traits and the scores 1..MaxScore.          *)
(***************************************************************************)
MaxRecords == 5

Traits == {"T1", "T2"}
RecordLists == UNION {[1..n -> Traits \X (1..MaxScore)] : n \in 0..MaxRecords}

InitAggregator ==
  /\ ProgramIdle
  /\ probe \in [records : RecordLists, done : {FALSE}]

Summarize ==
  /\ ~probe.done
  /\ probe' = [records |-> probe.records, done |-> TRUE,
               summary |-> summarize_personality(probe.records, MaxScore)]
  /\ UNCHANGED <<frontend, guiVars, cliVars, user>>

NextAggregator == Summarize

SpecAggregator == InitAggregator /\ [][NextAggregator]_vars

(***************************************************************************)
(* filter_questions on its own, applied to the catalog or any list of up   *)
(* to MaxPool of its questions, and to any mode, category and difficulty:  *)
(* those of the catalog, the wildcard, and a value no question has.        *)
(***************************************************************************)
Absent == "absent"
FilterModes        == Modes \cup {Absent}
FilterCategories   == UNION {Categories(m) : m \in Modes} \cup {Absent}
FilterDifficulties == UNION {Difficulties(m) : m \in Modes} \cup {Absent}

InitFilter ==
  /\ ProgramIdle
  /\ probe \in [questions : Pools \cup {questions}, mode : FilterModes,
                category : FilterCategories, difficulty : FilterDifficulties,
                done : {FALSE}]

\* the call returns a new list; `questions` is only read
Filter ==
  /\ ~probe.done
  /\ probe' = [probe EXCEPT !.done = TRUE] @@
              [filtered |-> filter_questions(probe.questions, probe.mode,
                                             probe.category, probe.difficulty)]
  /\ UNCHANGED <<frontend, guiVars, cliVars, user>>

NextFilter == Filter

SpecFilter == InitFilter /\ [][NextFilter]_vars

(***************************************************************************)
(* run_cli on its own, with the progress its threads make: the main thread *)
(* goes on whenever it can (it starts the next collection, and returns     *)
(* from timed_input once the reader is done or the join has timed out),    *)
(* and the time of a join runs out.  No line need ever arrive.             *)
(***************************************************************************)
InitCliOnly ==
  /\ frontend = "cli"
  /\ InitGui
  /\ InitCli
  /\ user = NoUser
  /\ probe = NoProbe

NextCli ==
  \/ CliSetup \/ CliAsk \/ ReaderReads \/ JoinTimeout \/ CliReturn \/ CliInput

SpecCli ==
  /\ InitCliOnly /\ [][NextCli]_vars
  /\ WF_vars(CliAsk) /\ WF_vars(JoinTimeout) /\ WF_vars(CliReturn)

(***************************************************************************)
(* Properties.                                                             *)
(***************************************************************************)
Cognitive(m) == m # PERSONALITY

\* the Tk front end is collecting an answer for the question at the cursor
Collecting ==
  /\ GuiOn
  /\ state.index < Len(state.quiz)
  /\ q_title = Question(state.index)
  /\ next_btn = "answer"

\* this step is a timed_input call returning and its round being scored
CliRound == CliOn /\ pc \in {"join", "check", "input"} /\ pc' \notin {"join", "check", "input"}

\* this step is a start_quiz that installed a session
Started == out'.cb = "start_quiz" /\ out'.kind = "none"

\* C1: in the command-line front end every timed_input call returns only a
\* value its own reader thread wrote (or None), and the verdict printed for
\* the question is the verdict of that value: what a reader abandoned at an
\* earlier deadline reads later is never returned or scored.
C1_OwnReaderOnly ==
  (CliOn /\ answer.call >= 1) =>
    /\ answer.by \in {0, answer.call}
    /\ answer.val # NONE => answer.by = answer.call
    /\ printed = ask_question(Q(selected[answer.call]), c_mode, answer.val).kind

\* a reader abandoned at its deadline has since read a line, and a later call
\* has returned a line of its own
C1_LateLineAndLaterAnswer ==
  \E r \in Calls : thread[r] = "late" /\ answer.call > r /\ answer.val # NONE

\* C8: for a collection with a time limit, what timed_input returns at end of
\* input differs from what it returns when the deadline passes, and
\* ask_question does not report the end of input as a timeout.
C8_EofDistinctFromTimeout ==
  (CliOn /\ TIME_LIMITS(c_mode) # None /\ answer.cause = "eof") =>
    /\ answer.val # TimeoutResult
    /\ printed # "timeout"

\* the count texts that are zero, negative or no number
BadCounts == {r \in CountLines : r # "" /\ ~(r \in Numerals /\ int(r) > 0)}

\* C9: a start with an empty pool or with a count that is zero, negative or not
\* a number is reported as an error (QuizError in run_cli, an error dialog in
\* start_quiz), presents no question, and leaves the Tk session state as it was.
C9_BadStartReported ==
  /\ [](CliOn /\ raw_count \in BadCounts => pc = "QuizError_count")
  /\ [](CliOn /\ pc \in {"QuizError_count", "QuizError_pool"} => selected = <<>>)
  /\ [][GuiOn /\ out'.cb = "start_quiz" /\ ~Started =>
          /\ out'.kind \in {"showerror_pool", "showerror_count"}
          /\ state' = state /\ q_title' = q_title]_vars
  /\ [][GuiOn /\ out'.cb = "start_quiz" /\ out'.raw \in BadCounts =>
          out'.kind = "showerror_count"]_vars

\* the answer line is the text of an integer in [1, n]
Answered(line, n) == line \in Numerals /\ 1 <= int(line) /\ int(line) <= n

\* C10: in a cognitive session an answer adds exactly one to the correct count
\* if and only if it is the question's answer index; any other line, and the
\* end of input, leave the count unchanged, and the session goes on to the next
\* question.
C10_CognitiveScoring ==
  /\ [][CliRound /\ Cognitive(c_mode) =>
          LET q == Q(selected[idx])
              line == answer'.val
              hit == Answered(line, q.choices) /\ int(line) - 1 = q.answer_index
          IN /\ pc' \in {"ask", "report"}
             /\ idx' = idx + 1
             /\ c_correct' = IF hit THEN c_correct + 1 ELSE c_correct]_vars
  /\ [][GuiOn /\ out'.cb = "submit_answer" /\ Collecting /\ Cognitive(state.mode)
          /\ state'.index # state.index =>
          LET q == Q(state.quiz[state.index + 1])
          IN state'.correct = IF choice_var = q.answer_index THEN state.correct + 1
                              ELSE state.correct]_vars

\* C7: in the Tk front end at most one countdown callback is pending, it is the
\* one state["timer_id"] names, and it belongs to the question at the cursor.
C7_OneCountdown ==
  GuiOn =>
    /\ Len(after) <= 1
    /\ after # <<>> => after = <<state.timer_id>> /\ Collecting

\* C2: a scoring update (the cursor moving on by one) is always the one update
\* of the question that is presented at the cursor and awaits its answer; in
\* run_cli every round scores the question it asked, once.
C2_ScoredOncePresented ==
  /\ [][GuiOn /\ ~Started /\ state'.index # state.index =>
          /\ state'.index = state.index + 1
          /\ Collecting]_vars
  /\ [][CliRound /\ pc' # "ValueError" => idx' = idx + 1 /\ idx <= count]_vars

\* C3: once an answer has been accepted or the time-up has fired for a
\* cognitive question (the button reads "next"), no countdown callback changes
\* index, correct or records, and the button only moves on to the next question.
C3_NoLateEffect ==
  [][GuiOn /\ next_btn = "next" /\ out'.cb \in {"tick_timer", "submit_answer"} =>
       /\ state'.index = state.index
       /\ state'.correct = state.correct
       /\ state'.records = state.records]_vars

\* C4: when the countdown of a cognitive question runs out before an answer
\* is submitted, the question is not given the verdict "correct" and the
\* correct count stays, whatever choice is highlighted (handle_timeout), and
\* run_cli prints the time-up and leaves its count.
C4_TimeoutNeverCounts ==
  /\ [][Collecting /\ Cognitive(state.mode) /\ out'.cb = "tick_timer" /\ out'.timeout =>
          /\ state'.correct = state.correct
          /\ feedback'.kind \notin {"correct", "timeout_correct"}]_vars
  /\ [][CliRound /\ Cognitive(c_mode) /\ pc = "check" /\ thread[idx] = "blocked" =>
          /\ c_correct' = c_correct
          /\ printed' = "timeout"]_vars

\* the verdict class of what a front end shows for a question
IsCorrect(kind) == kind \in {"correct", "timeout_correct"}

\* C5: run side by side on the same cognitive session sequence with the same
\* user behaviour per question, run_cli and the Tk window give each question
\* the same verdict and hold the same correct count after it, and end with the
\* same total and correct counts.
C5_SameVerdicts ==
  /\ (frontend = "both" /\ EquivDone) =>
       /\ IsCorrect(printed) <=> IsCorrect(feedback.kind)
       /\ c_correct = state.correct
  /\ (frontend = "both" /\ user.stage = "done") =>
       feedback = Result(count, c_correct)

\* C6: within a session the cursor moves only forward and only by one; a
\* time-up, a line that is no valid answer and the end of input each move it on
\* by exactly one; a question that comes on screen is the one at the cursor and
\* the successor of the one shown before; the session sequence does not change.
C6_CursorForwardByOne ==
  /\ [][GuiOn =>
          /\ ~Started => /\ state'.quiz = state.quiz
                         /\ state'.index \in {state.index, state.index + 1}
          /\ (out'.cb = "tick_timer" /\ out'.timeout) => state'.index = state.index + 1
          /\ (q_title'.kind = "question" /\ (q_title' # q_title \/ Started)) =>
                q_title'.n = state'.index
          /\ (~Started /\ q_title.kind = "question" /\ q_title'.kind = "question"
                /\ q_title' # q_title) => q_title'.n = q_title.n + 1
          /\ state'.index <= Len(state'.quiz)]_vars
  /\ [][CliOn /\ pc # "setup" =>
          /\ selected' = selected
          /\ idx' \in {idx, idx + 1}
          /\ idx' <= count + 1
          /\ CliRound => idx' = idx + 1]_vars

\* this step is submit_answer accepting the answer index of the question
\* presented at the cursor
AcceptedRight ==
  /\ out'.cb = "submit_answer" /\ Collecting
  /\ state'.index = state.index + 1
  /\ choice_var = Q(state.quiz[state.index + 1]).answer_index

\* this step is a round of run_cli whose line is the answer index (1-based)
\* of the question asked
CliRight ==
  /\ CliRound /\ pc' # "ValueError"
  /\ Answered(answer'.val, Q(selected[idx]).choices)
  /\ int(answer'.val) - 1 = Q(selected[idx]).answer_index

\* C11: in a cognitive session the report's total is the length of the session
\* sequence fixed at the start, and its correct count is the number of
\* questions of that sequence answered with their answer index: the count is 0
\* at the start and goes up, by one, exactly in the steps that accept such an
\* answer.
C11_ReportCounts ==
  /\ [](CliOn /\ pc \in {"ask", "join", "check", "input", "report"} => count = Len(selected))
  /\ [](GuiOn /\ q_title = Finished /\ Cognitive(state.mode) =>
          feedback = Result(Len(state.quiz), state.correct))
  /\ [][CliOn /\ Cognitive(c_mode) =>
          c_correct' = IF pc = "setup" THEN 0
                       ELSE IF CliRight THEN c_correct + 1 ELSE c_correct]_vars
  /\ [][GuiOn /\ Cognitive(state'.mode) =>
          state'.correct = IF Started THEN 0
                           ELSE IF AcceptedRight THEN state.correct + 1
                           ELSE state.correct]_vars

\* the count a count text asks for: Enter stands for DefaultCount
Requested(raw) == IF raw = "" THEN DefaultCount ELSE int(raw)

\* the count text is accepted: Enter, or the text of a positive integer
Accepted(raw) == raw = "" \/ (raw \in Numerals /\ int(raw) >= 1)

\* C12: for a non-empty pool and an accepted count, under either ordering and
\* in both front ends, the session sequence has min(count, |pool|) questions,
\* each of them in the pool and none twice; a count larger than the pool is
\* cut down to the pool's size and is no error.
C12_SampleSizeSubset ==
  (probe.done /\ probe.pool # <<>> /\ Accepted(probe.raw)) =>
     /\ probe.ok
     /\ Len(probe.seq) = Min(Requested(probe.raw), Len(probe.pool))
     /\ Range(probe.seq) \subseteq Range(probe.pool)
     /\ Injective(probe.seq)

\* a random selection was made with a count larger than a pool of several
\* questions, and it is not the pool in its own order
C12_OversizedRandom ==
  /\ probe.done /\ probe.is_random /\ probe.raw = "" /\ probe.by = "start_quiz"
  /\ Len(probe.pool) = MaxPool
  /\ probe.ok /\ probe.seq # probe.pool

\* the ids of seq never go down, as Python compares the id strings
IdAscending(seq) ==
  \A i, j \in DOMAIN seq : i < j => ~LexLess(Q(seq[j]).id, Q(seq[i]).id)

\* C13: with the stable ordering the session sequence is the first
\* min(count, |pool|) questions of the pool in ascending order of id: its ids
\* ascend, it holds no question twice, and every pool question left out has an
\* id that is not below any id taken.  (Ids being distinct, this fixes the
\* sequence: it is the same on every run.)
C13_StableOrder ==
  (probe.done /\ probe.ok /\ ~probe.is_random) =>
     /\ Len(probe.seq) = Min(Requested(probe.raw), Len(probe.pool))
     /\ Injective(probe.seq)
     /\ IdAscending(probe.seq)
     /\ \A q \in Range(probe.pool) \ Range(probe.seq), r \in Range(probe.seq) :
          ~LexLess(Q(q).id, Q(r).id)

\* the stable ordering was applied to a pool that is not in id order, with a
\* count that leaves a question out
C13_SortedAndCut ==
  /\ probe.done /\ probe.ok /\ ~probe.is_random
  /\ Len(probe.pool) = MaxPool /\ probe.raw = "2"
  /\ ~IdAscending(probe.pool)
  /\ probe.seq # SubSeq(probe.pool, 1, 2)

\* C14: in a personality session an answer i (0-based) to a question with n
\* choices appends exactly the record (trait, n - i); no input, a line that is
\* no number or out of range, and every other step append nothing.
C14_PersonalityRecords ==
  /\ [][CliOn /\ pc # "setup" /\ c_mode = PERSONALITY =>
          LET q == Q(selected[idx])
              line == answer'.val
          IN personality_records' =
               IF CliRound /\ Answered(line, q.choices)
               THEN Append(personality_records, <<q.trait, q.choices - (int(line) - 1)>>)
               ELSE personality_records]_vars
  /\ [][GuiOn /\ state'.mode = PERSONALITY =>
          state'.records =
            IF Started THEN <<>>
            ELSE IF out'.cb = "submit_answer" /\ Collecting /\ choice_var >= 0
            THEN LET q == Q(state.quiz[state.index + 1])
                 IN Append(state.records, <<q.trait, q.choices - choice_var>>)
            ELSE state.records]_vars

\* a personality session of two questions is over: one was skipped, the other
\* answered with its last choice
C14_OneSkippedOneScored ==
  /\ CliOn /\ pc = "report" /\ c_mode = PERSONALITY
  /\ count = 2 /\ Len(personality_records) = 1
  /\ personality_records[1][2] = 1

\* the scores recorded for trait t
ScoresFor(t) == {i \in DOMAIN probe.records : probe.records[i][1] = t}
RECURSIVE TotalOver(_)
TotalOver(I) ==
  IF I = {} THEN 0
  ELSE LET i == CHOOSE j \in I : TRUE IN probe.records[i][2] + TotalOver(I \ {i})

\* C15: for a non-empty record list the summary has one line per trait
\* recorded, whose tendency is "high" when average / MaxScore >= 0.85 (17/20),
\* "standard" when it is >= 0.60 (3/5) and below 0.85, and "low" otherwise, and
\* the overall average shown is that of all records, to the nearest hundredth;
\* for the empty list the summary is the "no data" text.
C15_Tendencies ==
  probe.done =>
    IF probe.records = <<>> THEN probe.summary.kind = "no_data"
    ELSE
      /\ probe.summary.kind = "personality_summary"
      /\ {probe.summary.lines[i].trait : i \in DOMAIN probe.summary.lines}
           = {probe.records[i][1] : i \in DOMAIN probe.records}
      /\ \A i \in DOMAIN probe.summary.lines :
           LET l     == probe.summary.lines[i]
               n     == Cardinality(ScoresFor(l.trait))
               total == TotalOver(ScoresFor(l.trait))
           IN /\ \A j \in DOMAIN probe.summary.lines : j # i =>
                   probe.summary.lines[j].trait # l.trait
              /\ l.tendency = "high" <=> 20 * total >= 17 * n * MaxScore
              /\ l.tendency = "standard" <=>
                   (5 * total >= 3 * n * MaxScore /\ 20 * total < 17 * n * MaxScore)
              /\ l.tendency = "low" <=> 5 * total < 3 * n * MaxScore
      /\ LET n     == Len(probe.records)
             total == TotalOver(DOMAIN probe.records)
         IN /\ 200 * total >= (2 * probe.summary.overall - 1) * n
            /\ 200 * total < (2 * probe.summary.overall + 1) * n

\* a summary with a trait whose average is exactly 0.85 of MaxScore (3.40),
\* which is "high"
C15_OnTheThresholds ==
  /\ probe.done /\ probe.records # <<>>
  /\ \E i \in DOMAIN probe.summary.lines :
       probe.summary.lines[i].tendency = "high" /\ 5 * TotalOver(ScoresFor(probe.summary.lines[i].trait)) = 17 * Cardinality(ScoresFor(probe.summary.lines[i].trait))

\* question q has the mode asked for, and the category and the difficulty
\* unless the wildcard was given
Matches(q) ==
  /\ Q(q).mode = probe.mode
  /\ probe.category = ALL \/ Q(q).category = probe.category
  /\ probe.difficulty = ALL \/ Q(q).difficulty = probe.difficulty

\* where question q stands in the list that was filtered
PlaceOf(q) == CHOOSE i \in DOMAIN probe.questions : probe.questions[i] = q

\* C16: filter_questions returns the questions of the list that match, each
\* once and in the order of the list; the empty list when none matches.
C16_FilterExact ==
  probe.done =>
    /\ Range(probe.filtered) = {q \in Range(probe.questions) : Matches(q)}
    /\ \A i, j \in DOMAIN probe.filtered :
         i < j => PlaceOf(probe.filtered[i]) < PlaceOf(probe.filtered[j])

\* a category filter kept two of three questions, with the wildcard for the
\* difficulty
C16_TwoOfThree ==
  /\ probe.done /\ Len(probe.questions) = 3 /\ Len(probe.filtered) = 2
  /\ probe.category # ALL /\ probe.difficulty = ALL
  /\ probe.filtered # SubSeq(probe.questions, 1, 2)

\* C17: a question is presented with the time limit of the session's mode, and
\* handle_timeout runs for a presented cognitive question exactly
\* TIME_LIMITS[mode] seconds after show_question presented it: in the callback
\* of the question's own countdown when that comes due for the
\* TIME_LIMITS[mode]-th time; in a personality session it never runs.
C17_TimeBudget ==
  /\ [][GuiOn /\ Presents => state'.timer_total = TIME_LIMITS(state'.mode)]_vars
  /\ [][GuiOn /\ out'.cb = "tick_timer" /\ out'.timeout /\ Collecting /\ Cognitive(state.mode) =>
          /\ Head(after) = shown.own
          /\ shown.age + 1 = TIME_LIMITS(state.mode)]_vars
  /\ [][GuiOn /\ state.mode = PERSONALITY => ~out'.timeout]_vars

\* C18: a cognitive session of run_cli always reaches the report, whether or
\* not any line arrives, and it does so after one collection per question of
\* the session sequence.
C18_ReachesReport ==
  /\ [][CliRound => idx' = idx + 1]_vars
  /\ [](CliOn /\ pc = "report" => idx = count + 1)
  /\ (CliOn /\ pc = "ask" /\ Cognitive(c_mode)) ~> (pc = "report")

\* C19: a valid line that the user sends while timed_input waits for the answer
\* to the question asked is read by the reader of that call, also when the
\* reader of an earlier, timed-out question is still blocked in input(), and
\* it is what the call returns and what is scored.
C19_LineToOwnReader ==
  /\ [][(CliOn /\ pc = "join" /\ ~user.typed /\ user'.typed) =>
          /\ thread'[idx] = "exited"
          /\ user_input'[CellOf(idx)] = Cell(Typed(user.pick), idx)]_vars
  /\ [][(CliRound /\ user.typed) => answer'.val = Typed(user.pick)]_vars

\* C20: in the Tk front end finish_quiz never computes the accuracy of a
\* cognitive session with a total of zero: no callback ends in the
\* ZeroDivisionError of `state['correct'] / total`, whatever buttons are
\* pressed, and the result is only ever shown for a non-empty session.
C20_TotalNeverZero ==
  GuiOn =>
    /\ out.kind # "ZeroDivisionError"
    /\ (q_title = Finished /\ Cognitive(state.mode)) => Len(state.quiz) > 0

\* C21: in every reachable state of the Tk front end
\* 0 <= correct <= index <= len(quiz) and len(records) <= index, and no
\* callback reads state["quiz"][state["index"]] for scoring
\* (score_selected_option, handle_timeout) with the cursor at or past the end
\* of the session sequence, which would end it in an IndexError.
C21_CursorInRange ==
  GuiOn =>
    /\ 0 <= state.correct
    /\ state.correct <= state.index
    /\ state.index <= Len(state.quiz)
    /\ Len(state.records) <= state.index
    /\ out.kind # "IndexError"

====
